---- MODULE Spec2Model ----
(***************************************************************************)
(* Model of src/src/pathfind/teleport.cpp: tunnel groups (teleport_group), *)
(* the registry of global tunnels (manager) and the adjacency map built    *)
(* for one unit and one viewing team (teleport_map).                       *)
(*                                                                         *)
(* Strings that the code builds or parses (group ids, the id counter in a  *)
(* saved config) are sequences of one-character strings, so that           *)
(* concatenation, std::to_string and to_int are computed, not assumed.     *)
(* Boolean attributes of a config are the strings "yes" / "no", and ""     *)
(* when the attribute is absent.                                           *)
(***************************************************************************)
EXTENDS Integers, Sequences, FiniteSets

VARIABLES tunnels_, id_, issued, call, env, query, tmap, stages

vars == <<tunnels_, id_, issued, call, env, query, tmap, stages>>

----------------------------------------------------------------------------
(* Bounds of the model *)

\* groups in the registry, the id counter, groups given to one teleport_map
MaxTunnels == 2
MaxId == 4
MaxGroups == 2

\* the board: the cells the region filters of the model select among
Cells == {1, 2, 3}

Range(s) == {s[i] : i \in 1..Len(s)}

----------------------------------------------------------------------------
(* Strings and attribute values *)

reversed_suffix == <<"-", "_", "_", "R", "E", "V", "E", "R", "S", "E", "D", "_", "_">>

Digits == <<"0", "1", "2", "3", "4", "5", "6", "7", "8", "9">>

RECURSIVE to_string(_)
to_string(n) ==
    IF n < 10 THEN <<Digits[n + 1]>>
    ELSE to_string(n \div 10) \o <<Digits[(n % 10) + 1]>>

DigitValue(ch) == (CHOOSE k \in 1..10 : Digits[k] = ch) - 1

IsDigit(ch) == \E k \in 1..10 : Digits[k] = ch

RECURSIVE ParseDigits(_, _)
ParseDigits(s, acc) ==
    IF s = <<>> THEN acc
    ELSE ParseDigits(Tail(s), acc * 10 + DigitValue(Head(s)))

\* config_attribute_value::to_int(def): the number the attribute holds, def for
\* an absent attribute or one that is no number
to_int(s, def) ==
    IF Len(s) > 0 /\ \A i \in 1..Len(s) : IsDigit(s[i])
    THEN ParseDigits(s, 0)
    ELSE def

\* config_attribute_value::to_bool(def)
to_bool(a, def) ==
    IF a \in {"yes", "true"} THEN TRUE
    ELSE IF a \in {"no", "false"} THEN FALSE
    ELSE def

----------------------------------------------------------------------------
(* Tunnel records ([tunnel] configs), units, the board *)

\* a region filter: the cells of locs, narrowed to those on which a unit of
\* the filter context stands when has_unit is set
TerrainFilterRec(locs, has_unit) == [locs |-> locs, has_unit |-> has_unit]

UnitFilterRec(type) == [type |-> type]

TunnelRec(id, av, pau, alv, source, target, filter) ==
    [id |-> id, saved |-> "", reversed |-> "",
     always_visible |-> av, pass_allied_units |-> pau, allow_vision |-> alv,
     source |-> source, target |-> target, filter |-> filter]

RecA == TunnelRec(<<"a">>, "", "", "",
                  <<TerrainFilterRec({1}, FALSE)>>, <<TerrainFilterRec({2}, FALSE)>>,
                  <<UnitFilterRec("A")>>)

Rec1 == TunnelRec(<<"1">>, "yes", "no", "",
                  <<TerrainFilterRec({1}, FALSE)>>, <<TerrainFilterRec({3}, FALSE)>>,
                  <<UnitFilterRec("A")>>)

RecAnon == TunnelRec(<<>>, "", "no", "no",
                     <<TerrainFilterRec({2}, FALSE)>>, <<TerrainFilterRec({3}, FALSE)>>,
                     <<UnitFilterRec("A")>>)

\* a record with two [source] children: the constructors reject it
RecBad == TunnelRec(<<"b">>, "", "", "",
                    <<TerrainFilterRec({1}, FALSE), TerrainFilterRec({2}, FALSE)>>,
                    <<TerrainFilterRec({2}, FALSE)>>, <<UnitFilterRec("A")>>)

TunnelRecords == {RecA, Rec1, RecAnon, RecBad}

\* a unit: its side, its type and the [tunnel] records of its teleport abilities
UnitRec(side, type, abilities) == [side |-> side, type |-> type, abilities |-> abilities]

Units == {UnitRec(1, "A", <<>>),
          UnitRec(2, "A", << <<RecAnon, RecA>> >>),
          UnitRec(2, "B", << <<RecA>>, <<RecAnon>> >>)}

\* the ids remove is called with: the named ids, the issued numbers, the id of
\* a reversed group, and an id no group has
RemoveIds == {<<"a">>, <<"1">>, <<"a">> \o reversed_suffix, <<"z">>}
             \cup {to_string(n) : n \in 1..MaxId}

----------------------------------------------------------------------------
(* teleport_group *)

ChildrenValid(cfg) ==
    /\ Len(cfg.source) = 1
    /\ Len(cfg.target) = 1
    /\ Len(cfg.filter) = 1

\* manager::next_unique_id: the new counter and the id returned
next_unique_id(counter) == [counter |-> counter + 1, id |-> to_string(counter + 1)]

\* the constructor without line 64: the id of the record is taken as it is
teleport_group_plain_id(cfg, reversed, counter) ==
    IF cfg.id = <<>>
    THEN [group |-> [cfg_ |-> cfg, reversed_ |-> reversed,
                     id_ |-> next_unique_id(counter).id],
          counter |-> next_unique_id(counter).counter]
    ELSE [group |-> [cfg_ |-> cfg, reversed_ |-> reversed, id_ |-> cfg.id],
          counter |-> counter]

\* teleport_group(const vconfig&, bool reversed): the group and the counter of
\* the manager after the construction
teleport_group(cfg, reversed, counter) ==
    IF cfg.id = <<>>
    THEN [group |-> [cfg_ |-> cfg, reversed_ |-> reversed,
                     id_ |-> next_unique_id(counter).id],
          counter |-> next_unique_id(counter).counter]
    ELSE [group |-> [cfg_ |-> cfg, reversed_ |-> reversed,
                     id_ |-> IF reversed THEN cfg.id \o reversed_suffix ELSE cfg.id],
          counter |-> counter]

\* the VALIDATEs of teleport_group(const config&), the constructor for saves
SavedValid(cfg) ==
    /\ cfg.id # <<>>
    /\ cfg.reversed # ""
    /\ ChildrenValid(cfg)

\* teleport_group(const config&)
teleport_group_saved(cfg) ==
    [cfg_ |-> cfg, reversed_ |-> to_bool(cfg.reversed, FALSE), id_ |-> cfg.id]

always_visible(g) == to_bool(g.cfg_.always_visible, FALSE)

pass_allied_units(g) == to_bool(g.cfg_.pass_allied_units, TRUE)

allow_vision(g) == to_bool(g.cfg_.allow_vision, TRUE)

\* to_config writing every group as a forward one
teleport_group_to_config_forward(g) ==
    [g.cfg_ EXCEPT !.saved = "yes", !.reversed = "no", !.id = g.id_]

teleport_group_to_config(g) ==
    [g.cfg_ EXCEPT !.saved = "yes",
                   !.reversed = IF g.reversed_ THEN "yes" ELSE "no",
                   !.id = g.id_]

----------------------------------------------------------------------------
(* manager *)

add(tunnels, group) == Append(tunnels, group)

\* remove comparing with the id alone
remove_exact(tunnels, id) == SelectSeq(tunnels, LAMBDA t : t.id_ # id)

remove(tunnels, id) ==
    SelectSeq(tunnels, LAMBDA t : ~(t.id_ = id \/ t.id_ = id \o reversed_suffix))

manager_to_config(tunnels, counter) ==
    [tunnel |-> [i \in 1..Len(tunnels) |-> teleport_group_to_config(tunnels[i])],
     next_teleport_group_id |-> to_string(counter)]

\* the [tunnel] children manager::manager keeps: those marked saved
SavedTunnels(store) == SelectSeq(store.tunnel, LAMBDA t : to_bool(t.saved, FALSE))

\* the constructor not reading next_teleport_group_id
manager_fresh_counter(store) ==
    [tunnels_ |-> [i \in 1..Len(SavedTunnels(store)) |->
                      teleport_group_saved(SavedTunnels(store)[i])],
     id_ |-> 0]

\* manager::manager(const config&)
manager(store) ==
    [tunnels_ |-> [i \in 1..Len(SavedTunnels(store)) |->
                      teleport_group_saved(SavedTunnels(store)[i])],
     id_ |-> to_int(store.next_teleport_group_id, 0)]

----------------------------------------------------------------------------
(* The filter engines and the board, as get_teleport_pair and teleport_map  *)
(* use them                                                                 *)

\* terrain_filter::get_locations(locs, u): adds the matching cells to locs;
\* fc_units are the cells on which the filter context sees a unit
get_locations(filter, locs, fc_units) ==
    locs \cup {c \in filter.locs \cap Cells : filter.has_unit => c \in fc_units}

\* unit_filter::matches
unit_matches(filter, u) == u.type = filter.type

\* team::is_enemy
is_enemy(team, side) == side \in team.enemies

\* team::fogged
fogged(team, loc) == loc \in team.fogged

\* gameboard->units().find(loc) != end()
units_find(e, loc) == loc \in e.occupied

\* gameboard->find_visible_unit(loc, viewing_team) != end(): a unit stands on
\* loc and the team sees it
find_visible_unit(e, loc, team) == loc \in e.occupied /\ ~fogged(team, loc)

viewing_team(e) == [enemies |-> e.enemies, fogged |-> e.fogged]

----------------------------------------------------------------------------
(* teleport_group::get_teleport_pair and teleport_map *)

EmptyPair == [first |-> {}, second |-> {}]

\* get_teleport_pair exchanging the sets for the source filter alone
get_teleport_pair_target_fixed(g, loc_pair, u, ignore_units, e) ==
    LET fc_units == IF ignore_units THEN {} ELSE e.occupied
        filter == Head(g.cfg_.filter)
        source == Head(g.cfg_.source)
        target == Head(g.cfg_.target)
        after_source ==
            IF g.reversed_
            THEN [loc_pair EXCEPT !.second = get_locations(source, @, fc_units)]
            ELSE [loc_pair EXCEPT !.first = get_locations(source, @, fc_units)]
        after_target ==
            [after_source EXCEPT !.second = get_locations(target, @, fc_units)]
    IN  IF unit_matches(filter, u) THEN after_target ELSE loc_pair

get_teleport_pair(g, loc_pair, u, ignore_units, e) ==
    LET fc_units == IF ignore_units THEN {} ELSE e.occupied
        filter == Head(g.cfg_.filter)
        source == Head(g.cfg_.source)
        target == Head(g.cfg_.target)
        after_source ==
            IF g.reversed_
            THEN [loc_pair EXCEPT !.second = get_locations(source, @, fc_units)]
            ELSE [loc_pair EXCEPT !.first = get_locations(source, @, fc_units)]
        after_target ==
            IF g.reversed_
            THEN [after_source EXCEPT !.first = get_locations(target, @, fc_units)]
            ELSE [after_source EXCEPT !.second = get_locations(target, @, fc_units)]
    IN  IF unit_matches(filter, u) THEN after_target ELSE loc_pair

\* the fog block narrowing the target set alone
fog_narrow_targets(locations, g, u, team, see_all) ==
    IF ~see_all /\ ~always_visible(g) /\ is_enemy(team, u.side)
    THEN [first |-> locations.first,
          second |-> {loc \in locations.second : ~fogged(team, loc)}]
    ELSE locations

\* lines 185-197: the cells fogged to the viewing team are dropped
fog_narrow(locations, g, u, team, see_all) ==
    IF ~see_all /\ ~always_visible(g) /\ is_enemy(team, u.side)
    THEN [first |-> {loc \in locations.first : ~fogged(team, loc)},
          second |-> {loc \in locations.second : ~fogged(team, loc)}]
    ELSE locations

\* the occupancy block not asking for check_vision
block_occupied_in_vision(locations, g, e, see_all, ignore_units, check_vision) ==
    IF ~pass_allied_units(g) /\ ~ignore_units
    THEN [locations EXCEPT !.second =
            {loc \in @ : ~(IF see_all THEN units_find(e, loc)
                                      ELSE find_visible_unit(e, loc, viewing_team(e)))}]
    ELSE locations

\* lines 199-214: the target cells on which a unit is found are erased
block_occupied(locations, g, e, see_all, ignore_units, check_vision) ==
    IF ~pass_allied_units(g) /\ ~ignore_units /\ ~check_vision
    THEN [locations EXCEPT !.second =
            {loc \in @ : ~(IF see_all THEN units_find(e, loc)
                                      ELSE find_visible_unit(e, loc, viewing_team(e)))}]
    ELSE locations

\* the accumulation replacing the entry of a source cell that has one
accumulate_overwrite(m, locations) ==
    [teleport_map_ |->
        [c \in (DOMAIN m.teleport_map_) \cup locations.first |->
            IF c \notin locations.first THEN m.teleport_map_[c]
            ELSE locations.second],
     sources_ |-> m.sources_ \cup locations.first,
     targets_ |-> m.targets_ \cup locations.second]

\* lines 216-228: the surviving cells enter the map and the aggregate sets
accumulate(m, locations) ==
    [teleport_map_ |->
        [c \in (DOMAIN m.teleport_map_) \cup locations.first |->
            IF c \notin locations.first THEN m.teleport_map_[c]
            ELSE IF c \notin DOMAIN m.teleport_map_ THEN locations.second
            ELSE m.teleport_map_[c] \cup locations.second],
     sources_ |-> m.sources_ \cup locations.first,
     targets_ |-> m.targets_ \cup locations.second]

EmptyMap == [teleport_map_ |-> [c \in {} |-> {}], sources_ |-> {}, targets_ |-> {}]

\* the values of the local `locations` in one iteration of the loop over the
\* groups: after get_teleport_pair, after the fog block, after the occupancy
\* block; skipped when the iteration ends at the `continue` of line 181
group_stage(g, u, e, see_all, ignore_units, check_vision) ==
    IF check_vision /\ ~allow_vision(g)
    THEN [skipped |-> TRUE, resolved |-> EmptyPair, narrowed |-> EmptyPair,
          survived |-> EmptyPair]
    ELSE LET resolved == get_teleport_pair(g, EmptyPair, u, ignore_units, e)
             narrowed == fog_narrow(resolved, g, u, viewing_team(e), see_all)
             survived == block_occupied(narrowed, g, e, see_all, ignore_units,
                                        check_vision)
         IN  [skipped |-> FALSE, resolved |-> resolved, narrowed |-> narrowed,
              survived |-> survived]

group_stages(groups, u, e, see_all, ignore_units, check_vision) ==
    [i \in 1..Len(groups) |->
        group_stage(groups[i], u, e, see_all, ignore_units, check_vision)]

RECURSIVE teleport_map_loop(_, _, _)
teleport_map_loop(st, i, m) ==
    IF i > Len(st) THEN m
    ELSE teleport_map_loop(st, i + 1,
            IF st[i].skipped THEN m ELSE accumulate(m, st[i].survived))

\* teleport_map::teleport_map
teleport_map(groups, u, e, see_all, ignore_units, check_vision) ==
    teleport_map_loop(group_stages(groups, u, e, see_all, ignore_units, check_vision),
                      1, EmptyMap)

get_adjacents(m, loc) ==
    IF loc \notin DOMAIN m.teleport_map_ THEN {} ELSE m.teleport_map_[loc]

get_sources(m) == m.sources_

\* get_targets collecting the cells the entries of the map lead to
get_targets_of_entries(m) == UNION {m.teleport_map_[c] : c \in DOMAIN m.teleport_map_}

get_targets(m) == m.targets_

----------------------------------------------------------------------------
(* get_teleport_locations *)

RECURSIVE Flatten(_)
Flatten(ss) == IF ss = <<>> THEN <<>> ELSE Head(ss) \o Flatten(Tail(ss))

\* the [tunnel] children of the unit's teleport abilities, in order
AbilityTunnels(u) == Flatten(u.abilities)

\* lines 257-263: one forward group per [tunnel] of the abilities; the result
\* carries the manager's counter after the constructions
RECURSIVE ability_groups(_, _, _)
ability_groups(recs, groups, counter) ==
    IF recs = <<>> THEN [groups |-> groups, counter |-> counter]
    ELSE LET made == teleport_group(Head(recs), FALSE, counter)
         IN  ability_groups(Tail(recs), Append(groups, made.group), made.counter)

\* the ids next_unique_id returned to the constructors of the given groups
IssuedTo(groups) ==
    LET anon == SelectSeq(groups, LAMBDA g : g.cfg_.id = <<>>)
    IN  [k \in 1..Len(anon) |-> anon[k].id_]

----------------------------------------------------------------------------
(* State: the manager (tunnels_, id_), the board and the viewing team (env), *)
(* the last call with the manager as it was before it (call), what the last  *)
(* construction of a teleport_map was given and built (query, tmap, stages), *)
(* and the ids next_unique_id has returned since the session began (issued). *)

Call(op, id) == [op |-> op, id |-> id, tunnels |-> tunnels_, counter |-> id_]

NoQuery ==
    [groups |-> <<>>, u |-> UnitRec(1, "A", <<>>), see_all |-> FALSE,
     ignore_units |-> FALSE, check_vision |-> FALSE]

Env(fog, occupied) == [enemies |-> {2}, fogged |-> fog, occupied |-> occupied]

\* every fog; units on any of the cells a tunnel of the model leads to
Envs == {Env(fog, occupied) : fog \in SUBSET Cells, occupied \in SUBSET {2, 3}}

InitManager ==
    /\ tunnels_ = <<>>
    /\ id_ = 0
    /\ issued = <<>>
    /\ call = [op |-> "init", id |-> <<>>, tunnels |-> <<>>, counter |-> 0]
    /\ query = NoQuery
    /\ tmap = EmptyMap
    /\ stages = <<>>

Init ==
    /\ InitManager
    /\ env = Env({2}, {3})

\* a [tunnel] event: a group is built from the record and registered
AddTunnel(cfg, reversed) ==
    /\ ChildrenValid(cfg)
    /\ Len(tunnels_) < MaxTunnels
    /\ cfg.id = <<>> => id_ < MaxId
    /\ LET made == teleport_group(cfg, reversed, id_)
       IN  /\ tunnels_' = add(tunnels_, made.group)
           /\ id_' = made.counter
           /\ issued' = issued \o IssuedTo(<<made.group>>)
           /\ call' = Call("add", made.group.id_)
    /\ query' = NoQuery
    /\ tmap' = EmptyMap
    /\ stages' = <<>>
    /\ UNCHANGED env

Remove(id) ==
    /\ tunnels_' = remove(tunnels_, id)
    /\ call' = Call("remove", id)
    /\ query' = NoQuery
    /\ tmap' = EmptyMap
    /\ stages' = <<>>
    /\ UNCHANGED <<id_, issued, env>>

NextUniqueId ==
    /\ id_ < MaxId
    /\ id_' = next_unique_id(id_).counter
    /\ issued' = Append(issued, next_unique_id(id_).id)
    /\ call' = Call("next_unique_id", next_unique_id(id_).id)
    /\ query' = NoQuery
    /\ tmap' = EmptyMap
    /\ stages' = <<>>
    /\ UNCHANGED <<tunnels_, env>>

\* the manager is saved with to_config and a new manager is built from the
\* result; the constructor throws when a saved [tunnel] fails a VALIDATE
SaveLoad ==
    LET store == manager_to_config(tunnels_, id_)
    IN  /\ \A t \in Range(SavedTunnels(store)) : SavedValid(t)
        /\ tunnels_' = manager(store).tunnels_
        /\ id_' = manager(store).id_
        /\ call' = Call("restore", <<>>)
        /\ query' = NoQuery
        /\ tmap' = EmptyMap
        /\ stages' = <<>>
        /\ UNCHANGED <<issued, env>>

\* get_teleport_locations: the groups of the unit's abilities are built
\* (lines 257-263), the registered groups follow them (265-266), and the map
\* teleport_map builds from them is returned to the caller. The map is a
\* value of the caller, and the three flags shape nothing else; what stays in
\* the program is what the constructors of the groups did to the manager.
\* The construction of the map itself is the action TeleportMap below.
GetTeleportLocations(u, see_all, ignore_units, check_vision) ==
    /\ \A rec \in Range(AbilityTunnels(u)) : ChildrenValid(rec)
    /\ id_ + Cardinality({i \in 1..Len(AbilityTunnels(u)) :
                            AbilityTunnels(u)[i].id = <<>>}) <= MaxId
    /\ LET made == ability_groups(AbilityTunnels(u), <<>>, id_)
       IN  /\ id_' = made.counter
           /\ issued' = issued \o IssuedTo(made.groups)
    /\ call' = Call("get_teleport_locations", <<>>)
    /\ query' = NoQuery
    /\ tmap' = EmptyMap
    /\ stages' = <<>>
    /\ UNCHANGED <<tunnels_, env>>

Next ==
    \/ \E cfg \in TunnelRecords, reversed \in BOOLEAN : AddTunnel(cfg, reversed)
    \/ \E id \in RemoveIds : Remove(id)
    \/ NextUniqueId
    \/ SaveLoad
    \/ \E u \in Units, see_all \in BOOLEAN, ignore_units \in BOOLEAN,
          check_vision \in BOOLEAN :
            GetTeleportLocations(u, see_all, ignore_units, check_vision)

Spec == Init /\ [][Next]_vars

----------------------------------------------------------------------------
(* The construction of a teleport_map from any list of groups, for any unit, *)
(* flags, fog and occupancy                                                  *)

\* a tunnel from cells 1 and 2 to cell 3, used forward, and a tunnel declared
\* from the occupied cells among 2 and 3 to cell 1, used reversed: both lead
\* away from cell 1; each with every combination of the three policy flags
ForwardRec(av, pau, alv) ==
    TunnelRec(<<"f">>, av, pau, alv,
              <<TerrainFilterRec({1, 2}, FALSE)>>, <<TerrainFilterRec({3}, FALSE)>>,
              <<UnitFilterRec("A")>>)

BackwardRec(av, pau, alv) ==
    TunnelRec(<<"r">>, av, pau, alv,
              <<TerrainFilterRec({2, 3}, TRUE)>>, <<TerrainFilterRec({1}, FALSE)>>,
              <<UnitFilterRec("A")>>)

MapGroups ==
    {teleport_group(ForwardRec(av, pau, alv), FALSE, 0).group :
        av \in {"", "yes"}, pau \in {"", "no"}, alv \in {"", "no"}}
    \cup
    {teleport_group(BackwardRec(av, pau, alv), TRUE, 0).group :
        av \in {"", "yes"}, pau \in {"", "no"}, alv \in {"", "no"}}

GroupLists == UNION {[1..n -> MapGroups] : n \in 0..MaxGroups}

InitMap ==
    /\ InitManager
    /\ env \in Envs

TeleportMap(groups, u, see_all, ignore_units, check_vision) ==
    /\ query' = [groups |-> groups, u |-> u, see_all |-> see_all,
                 ignore_units |-> ignore_units, check_vision |-> check_vision]
    /\ tmap' = teleport_map(groups, u, env, see_all, ignore_units, check_vision)
    /\ stages' = group_stages(groups, u, env, see_all, ignore_units, check_vision)
    /\ call' = Call("teleport_map", <<>>)
    /\ UNCHANGED <<tunnels_, id_, issued, env>>

\* one map is built per query
NextMap ==
    /\ call.op = "init"
    /\ \E groups \in GroupLists, u \in Units, see_all \in BOOLEAN,
          ignore_units \in BOOLEAN, check_vision \in BOOLEAN :
            TeleportMap(groups, u, see_all, ignore_units, check_vision)

SpecMap == InitMap /\ [][NextMap]_vars

----------------------------------------------------------------------------
(* Properties of the manager, checked under Spec *)

\* h is the reversed twin of the forward group g: both were built from the
\* same tunnel record
Twin(g, h) ==
    /\ g.cfg_ = h.cfg_
    /\ g.cfg_.saved = ""
    /\ ~g.reversed_
    /\ h.reversed_

\* no group of the registry has the id, nor the id with the reversed suffix
Unrelated(id, tunnels) ==
    \A t \in Range(tunnels) : t.id_ # id /\ t.id_ # id \o reversed_suffix

\* C1 as stated: for every tunnel record, with or without an explicit id,
\* whose forward group and reversed twin are both registered, remove called
\* with the forward group's id removes both groups; remove called with an id
\* that matches no group, with or without the suffix, leaves the registry as
\* it was.
C1_RemoveAnyTwin ==
    call.op = "remove" =>
        /\ \A g, h \in Range(call.tunnels) :
              (Twin(g, h) /\ call.id = g.id_) =>
                  (g \notin Range(tunnels_) /\ h \notin Range(tunnels_))
        /\ Unrelated(call.id, call.tunnels) => tunnels_ = call.tunnels

\* C1 amended: for every tunnel record with an explicit (non-empty) id whose
\* forward group and reversed twin are both registered, remove called with
\* the forward group's id removes both groups; remove called with an id that
\* matches no group, with or without the suffix, leaves the registry as it
\* was (same groups, same order).
C1_RemoveNamedTwin ==
    call.op = "remove" =>
        /\ \A g, h \in Range(call.tunnels) :
              (Twin(g, h) /\ g.cfg_.id # <<>> /\ call.id = g.id_) =>
                  (g \notin Range(tunnels_) /\ h \notin Range(tunnels_))
        /\ Unrelated(call.id, call.tunnels) => tunnels_ = call.tunnels

\* a named forward group and its twin were registered, remove was called
\* with the forward id, and both are gone
C1_Witness ==
    /\ call.op = "remove"
    /\ \E g, h \in Range(call.tunnels) :
          /\ Twin(g, h)
          /\ g.cfg_.id # <<>>
          /\ call.id = g.id_
          /\ g \notin Range(tunnels_)
          /\ h \notin Range(tunnels_)

\* C2: get_teleport_locations is a pure read: the manager's group list and
\* the manager's id counter are the same after the call as before it, for
\* every unit and every combination of the flags.
C2_QueryLeavesManager ==
    call.op = "get_teleport_locations" =>
        (tunnels_ = call.tunnels /\ id_ = call.counter)

\* C3: the ids next_unique_id issues since the fresh manager are "1", "2",
\* ..., "N" in that order (the k-th id is the decimal form of k, the first
\* is "1" and never "0") and no id is issued twice, so no two groups built
\* from records with an empty id receive the same id; saving the manager and
\* rebuilding it in between changes none of this.
C3_IdIssuance ==
    /\ \A k \in 1..Len(issued) : to_int(issued[k], 0 - 1) = k
    /\ Len(issued) > 0 => (issued[1] = <<"1">> /\ issued[1] # <<"0">>)
    /\ \A j, k \in 1..Len(issued) : j # k => issued[j] # issued[k]

\* an anonymous group that went through a save and a rebuild stands in the
\* registry beside an anonymous group built after the rebuild
C3_Witness ==
    /\ Len(issued) >= 2
    /\ \E j, k \in 1..Len(tunnels_) :
          /\ tunnels_[j].cfg_.saved = "yes"
          /\ tunnels_[j].id_ = <<"1">>
          /\ tunnels_[k].cfg_.saved = ""
          /\ tunnels_[k].cfg_.id = <<>>
          /\ tunnels_[k].id_ = issued[Len(issued)]

\* C4 as stated: no two distinct groups of the registry carry the same id.
C4_IdsUnique ==
    \A j, k \in 1..Len(tunnels_) : j # k => tunnels_[j].id_ # tunnels_[k].id_

\* C4 amended: ids are unique in the registry only as far as the
\* construction of the groups makes them so: the reversed counterpart of a
\* group never has the same id as the forward group built from the same
\* record (for a named record it is the forward id followed by the reversed
\* suffix), and no two groups built from records with an empty id carry the
\* same id; add performs no check, so groups built from named records can
\* share an id.
C4_IdsDistinctByConstruction ==
    /\ \A g, h \in Range(tunnels_) :
          Twin(g, h) =>
              /\ g.id_ # h.id_
              /\ g.cfg_.id # <<>> =>
                    (g.id_ = g.cfg_.id /\ h.id_ = g.cfg_.id \o reversed_suffix)
    /\ \A j, k \in 1..Len(tunnels_) :
          (j # k /\ tunnels_[j].cfg_.id = <<>> /\ tunnels_[k].cfg_.id = <<>>)
          => tunnels_[j].id_ # tunnels_[k].id_

\* a named forward group and its reversed twin are both registered
C4_Witness ==
    \E g, h \in Range(tunnels_) : Twin(g, h) /\ g.cfg_.id # <<>>

\* C5: a manager rebuilt from to_config of a manager has the same sequence of
\* group ids, the same reversed flag for each group and the same counter, so
\* the next id it issues is the next id the saved manager would have issued.
C5_RoundTrip ==
    call.op = "restore" =>
        /\ Len(tunnels_) = Len(call.tunnels)
        /\ \A k \in 1..Len(call.tunnels) :
              /\ tunnels_[k].id_ = call.tunnels[k].id_
              /\ tunnels_[k].reversed_ = call.tunnels[k].reversed_
        /\ id_ = call.counter
        /\ next_unique_id(id_).id = next_unique_id(call.counter).id

\* a manager holding a forward and a reversed group and a counter above zero
\* was saved and rebuilt
C5_Witness ==
    /\ call.op = "restore"
    /\ call.counter > 0
    /\ \E j, k \in 1..Len(call.tunnels) :
          call.tunnels[j].reversed_ /\ ~call.tunnels[k].reversed_

----------------------------------------------------------------------------
(* Properties of teleport_map, checked under SpecMap *)

Built == call.op = "teleport_map"

\* the groups of the last construction that reached get_teleport_pair
Processed == {i \in 1..Len(stages) : ~stages[i].skipped}

\* the policy attributes as the [tunnel] record states them
SaysAlwaysVisible(g) == g.cfg_.always_visible \in {"yes", "true"}

SaysBlockedByUnits(g) == g.cfg_.pass_allied_units \in {"no", "false"}

SaysNoVision(g) == g.cfg_.allow_vision \in {"no", "false"}

\* the fog block applies to group g of the last construction
FogApplies(g) ==
    /\ ~query.see_all
    /\ ~SaysAlwaysVisible(g)
    /\ query.u.side \in env.enemies

\* the occupancy block applies to group g of the last construction
BlockApplies(g) ==
    /\ SaysBlockedByUnits(g)
    /\ ~query.ignore_units
    /\ ~query.check_vision

\* C6: fog narrowing, per group: the narrowed source and target sets are
\* subsets of the resolved sets; when see_all is false, the group is not
\* always_visible and the unit's side is an enemy of the viewing team,
\* exactly the fogged cells are dropped, from the source set and from the
\* target set independently; otherwise no cell is dropped, so every cell kept
\* with see_all=false is also kept with see_all=true under the same fog.
C6_FogNarrowing ==
    Built =>
        \A i \in Processed :
            LET g == query.groups[i]
                st == stages[i]
                all == fog_narrow(st.resolved, g, query.u, viewing_team(env), TRUE)
            IN  /\ st.narrowed.first \subseteq st.resolved.first
                /\ st.narrowed.second \subseteq st.resolved.second
                /\ FogApplies(g) =>
                      /\ st.narrowed.first = st.resolved.first \ env.fogged
                      /\ st.narrowed.second = st.resolved.second \ env.fogged
                /\ ~FogApplies(g) => st.narrowed = st.resolved
                /\ all = st.resolved
                /\ st.narrowed.first \subseteq all.first
                /\ st.narrowed.second \subseteq all.second

\* a half-visible tunnel: fog took a source cell of a group and left its
\* target cells
C6_Witness ==
    /\ Built
    /\ \E i \in Processed :
          /\ FogApplies(query.groups[i])
          /\ stages[i].narrowed.first # stages[i].resolved.first
          /\ stages[i].narrowed.first # {}
          /\ stages[i].narrowed.second = stages[i].resolved.second
          /\ stages[i].narrowed.second # {}

\* C7: occupancy blocking removes target cells only, never a source cell, and
\* no cell at all when ignore_units or check_vision is set or the group has
\* pass_allied_units; when pass_allied_units=false, ignore_units=false and
\* check_vision=false it removes exactly the target cells on which a unit is
\* found, among all units when see_all is set and among the units the viewing
\* team sees when it is not.
C7_OccupancyBlocking ==
    Built =>
        \A i \in Processed :
            LET g == query.groups[i]
                st == stages[i]
                found == IF query.see_all THEN env.occupied
                                          ELSE env.occupied \ env.fogged
            IN  /\ st.survived.first = st.narrowed.first
                /\ st.survived.second \subseteq st.narrowed.second
                /\ BlockApplies(g) =>
                      st.survived.second = st.narrowed.second \ found
                /\ ~BlockApplies(g) => st.survived = st.narrowed

\* without see_all, a target cell with a unit the viewing team sees was
\* removed and a target cell with a unit hidden in the fog was kept
C7_Witness ==
    /\ Built
    /\ ~query.see_all
    /\ \E i \in Processed :
          /\ BlockApplies(query.groups[i])
          /\ \E c \in stages[i].narrowed.second :
                c \in env.occupied /\ c \notin stages[i].survived.second
          /\ \E c \in stages[i].survived.second : c \in env.occupied

\* C8: get_adjacents(c) is the union of the surviving target sets of the
\* groups whose surviving source set contains c; a group with
\* allow_vision=false is passed over when check_vision is set and only then;
\* a later group adds to the targets an earlier group gave to a source cell.
C8_Adjacents ==
    Built =>
        /\ Len(stages) = Len(query.groups)
        /\ \A i \in 1..Len(stages) :
              stages[i].skipped =
                  (query.check_vision /\ SaysNoVision(query.groups[i]))
        /\ \A c \in Cells \cup {0} :
              get_adjacents(tmap, c) =
                  UNION {stages[i].survived.second :
                            i \in {k \in Processed : c \in stages[k].survived.first}}

\* two groups share a source cell and have disjoint non-empty target sets:
\* the entry of the cell holds both
C8_Witness ==
    /\ Built
    /\ \E i, j \in Processed, c \in Cells :
          /\ i < j
          /\ c \in stages[i].survived.first \cap stages[j].survived.first
          /\ stages[i].survived.second # {}
          /\ stages[j].survived.second # {}
          /\ stages[i].survived.second \cap stages[j].survived.second = {}
          /\ get_adjacents(tmap, c) =
                stages[i].survived.second \cup stages[j].survived.second

\* the source and target filters of a record, evaluated for the last query
SourceCells(cfg) ==
    {c \in Head(cfg.source).locs :
        Head(cfg.source).has_unit => (~query.ignore_units /\ c \in env.occupied)}

TargetCells(cfg) ==
    {c \in Head(cfg.target).locs :
        Head(cfg.target).has_unit => (~query.ignore_units /\ c \in env.occupied)}

\* C9: get_teleport_pair on an empty pair gives, for a group and for the
\* counterpart built from the same record with the other direction, the same
\* two sets with source and target exchanged; a forward group gets the cells
\* of its source filter as sources and of its target filter as targets; when
\* the unit does not match the eligibility filter both sets are empty for
\* both groups.
C9_Reversal ==
    Built =>
        \A i \in Processed :
            LET g == query.groups[i]
                other == [g EXCEPT !.reversed_ = ~g.reversed_]
                mine == stages[i].resolved
                theirs == get_teleport_pair(other, EmptyPair, query.u,
                                            query.ignore_units, env)
                forward == IF g.reversed_ THEN theirs ELSE mine
                eligible == query.u.type = Head(g.cfg_.filter).type
            IN  /\ mine.first = theirs.second
                /\ mine.second = theirs.first
                /\ eligible =>
                      /\ forward.first = SourceCells(g.cfg_)
                      /\ forward.second = TargetCells(g.cfg_)
                /\ ~eligible => (mine = EmptyPair /\ theirs = EmptyPair)

\* a reversed group resolved to different, non-empty source and target sets
C9_Witness ==
    /\ Built
    /\ \E i \in Processed :
          /\ query.groups[i].reversed_
          /\ stages[i].resolved.first # {}
          /\ stages[i].resolved.second # {}
          /\ stages[i].resolved.first # stages[i].resolved.second
          /\ stages[i].resolved.first = TargetCells(query.groups[i].cfg_)

\* C10: get_sources() is the union of the surviving source sets of all
\* groups and get_targets() the union of their surviving target sets, also
\* of a group that has no surviving source cell; an empty list of groups
\* gives empty get_sources() and get_targets() and get_adjacents(c) is then
\* the empty set for every cell.
C10_Aggregates ==
    Built =>
        /\ get_sources(tmap) = UNION {stages[i].survived.first : i \in Processed}
        /\ get_targets(tmap) = UNION {stages[i].survived.second : i \in Processed}
        /\ query.groups = <<>> =>
              /\ get_sources(tmap) = {}
              /\ get_targets(tmap) = {}
              /\ \A c \in Cells \cup {0} : get_adjacents(tmap, c) = {}

\* a group lost all its source cells and kept a target cell, which is among
\* get_targets()
C10_Witness ==
    /\ Built
    /\ \E i \in Processed :
          /\ stages[i].resolved.first # {}
          /\ stages[i].survived.first = {}
          /\ stages[i].survived.second # {}
          /\ stages[i].survived.second \subseteq get_targets(tmap)
          /\ get_sources(tmap) = {}

====
